---- MODULE Spec2Model ----
(***************************************************************************)
(* A model of the coala column store: type inference of raw text columns   *)
(* (col_parser.rs), the sorted-snapshot memo of a column, the statistics   *)
(* of numeric columns (statistics.rs) and the DataFrame with its           *)
(* statistics cache (csv_parser.rs).                                       *)
(*                                                                         *)
(* Text is a sequence of one-character strings.  A 64-bit integer is       *)
(* modelled with I64Bits bits and a usize with UsizeBits bits, so that the *)
(* overflow cases of the code are reachable with small numbers.  An f64 is *)
(* a record: NaN, an infinity, or a finite value held as an exact fraction *)
(* (the rounding of f64 arithmetic is not modelled).                       *)
(***************************************************************************)
EXTENDS Integers, Sequences, FiniteSets, TLC

\* ------------------------------------------------------------- bounds
I64Bits == 5
UsizeBits == 6
MaxRows == 3
MaxDfRows == 1
QDen == 4
MaxIndex == 4

Pow2(k) == 2 ^ k
I64Max == Pow2(I64Bits - 1) - 1
I64Min == -Pow2(I64Bits - 1)
UsizeMax == Pow2(UsizeBits) - 1

\* ------------------------------------------------------------- text
Digits == {"0", "1", "2", "3", "4", "5", "6", "7", "8", "9"}

DigitVal(c) ==
  CASE c = "0" -> 0 [] c = "1" -> 1 [] c = "2" -> 2 [] c = "3" -> 3
    [] c = "4" -> 4 [] c = "5" -> 5 [] c = "6" -> 6 [] c = "7" -> 7
    [] c = "8" -> 8 [] c = "9" -> 9

DigitChar(d) == <<"0", "1", "2", "3", "4", "5", "6", "7", "8", "9">>[d + 1]

\* ASCII lower-casing of the letters that matter to the float grammar.
Lower(c) ==
  CASE c = "N" -> "n" [] c = "A" -> "a" [] c = "I" -> "i" [] c = "F" -> "f"
    [] c = "T" -> "t" [] c = "Y" -> "y" [] c = "E" -> "e" [] OTHER -> c

LowerStr(s) == [i \in 1..Len(s) |-> Lower(s[i])]

AllDigits(s) == \A i \in 1..Len(s) : s[i] \in Digits

\* The decimal text of a natural number (what Display writes for it).
RECURSIVE Dec(_)
Dec(n) == IF n < 10 THEN <<DigitChar(n)>> ELSE Dec(n \div 10) \o <<DigitChar(n % 10)>>

\* The decimal text of an integer.
DecInt(n) == IF n < 0 THEN <<"-">> \o Dec(-n) ELSE Dec(n)

Min(a, b) == IF a < b THEN a ELSE b
Max(a, b) == IF a > b THEN a ELSE b
Abs(a) == IF a < 0 THEN -a ELSE a

\* ------------------------------------------------------------- f64
RECURSIVE Gcd(_, _)
Gcd(a, b) == IF b = 0 THEN a ELSE Gcd(b, a % b)

NaN == [k |-> "nan", n |-> 0, d |-> 1]
Inf == [k |-> "inf", n |-> 1, d |-> 1]
NegInf == [k |-> "inf", n |-> -1, d |-> 1]

\* n/d divided through by g.
Reduced(n, d, g) == [k |-> "fin", n |-> n \div g, d |-> d \div g]

\* The finite value n/d (d > 0), in lowest terms.
Fin(n, d) == Reduced(n, d, Gcd(Abs(n), d))

FInt(i) == Fin(i, 1)

IsNaN(x) == x.k = "nan"
IsFinite(x) == x.k = "fin"
Sign(i) == IF i > 0 THEN 1 ELSE IF i < 0 THEN -1 ELSE 0
FSign(x) == Sign(x.n)

\* x < y of f64: false as soon as one side is NaN.
FLt(x, y) ==
  /\ ~IsNaN(x) /\ ~IsNaN(y)
  /\ IF IsFinite(x) /\ IsFinite(y) THEN x.n * y.d < y.n * x.d
     ELSE IF IsFinite(x) THEN y.n > 0
     ELSE IF IsFinite(y) THEN x.n < 0
     ELSE x.n < y.n

\* x <= y of f64.
FLe(x, y) == ~IsNaN(x) /\ ~IsNaN(y) /\ ~FLt(y, x)

\* x + y of f64: inf + -inf is NaN.
FAdd(x, y) ==
  IF IsNaN(x) \/ IsNaN(y) THEN NaN
  ELSE IF IsFinite(x) /\ IsFinite(y) THEN Fin(x.n * y.d + y.n * x.d, x.d * y.d)
  ELSE IF IsFinite(x) THEN y
  ELSE IF IsFinite(y) THEN x
  ELSE IF x.n = y.n THEN x ELSE NaN

\* x * y of f64: 0 * inf is NaN.
FMul(x, y) ==
  IF IsNaN(x) \/ IsNaN(y) THEN NaN
  ELSE IF IsFinite(x) /\ IsFinite(y) THEN Fin(x.n * y.n, x.d * y.d)
  ELSE IF FSign(x) * FSign(y) = 0 THEN NaN
  ELSE IF FSign(x) * FSign(y) > 0 THEN Inf ELSE NegInf

FNeg(x) == IF IsNaN(x) THEN x ELSE [x EXCEPT !.n = -x.n]
FSub(x, y) == FAdd(x, FNeg(y))

\* x / y of f64 for a finite non-zero y (a count).
FDivCount(x, c) == FMul(x, Fin(1, c))

\* floor and ceil of a finite value, as integers.
FFloor(x) == x.n \div x.d
FCeil(x) == -((-x.n) \div x.d)

\* ------------------------------------------------------------- parsing
\* The value of a run of digits, saturating just above cap (an overflow).
RECURSIVE DigitsVal(_, _)
DigitsVal(ds, cap) ==
  IF ds = <<>> THEN 0
  ELSE Min(10 * DigitsVal(SubSeq(ds, 1, Len(ds) - 1), cap) + DigitVal(ds[Len(ds)]), cap + 1)

Ok(v) == [ok |-> TRUE, v |-> v]
ParseErr == [ok |-> FALSE, v |-> 0]

\* str::parse::<i64>, the range check: v is the magnitude, cap its limit.
ParseI64Value(neg, v, cap) == IF v > cap THEN ParseErr ELSE Ok(IF neg THEN -v ELSE v)

\* str::parse::<i64>, after the sign: one or more digits.
ParseI64Digits(neg, ds) ==
  IF ds = <<>> \/ ~AllDigits(ds) THEN ParseErr
  ELSE ParseI64Value(neg, DigitsVal(ds, I64Max + 1), IF neg THEN I64Max + 1 ELSE I64Max)

\* str::parse::<i64>: an optional sign, then one or more digits, in range.
ParseI64(s) ==
  IF s = <<>> THEN ParseErr
  ELSE ParseI64Digits(s[1] = "-", IF s[1] \in {"+", "-"} THEN Tail(s) ELSE s)

\* The first position of character c in s, or 0.
IndexOf(s, c) ==
  IF \E i \in 1..Len(s) : s[i] = c
  THEN CHOOSE i \in 1..Len(s) : s[i] = c /\ \A j \in 1..(i - 1) : s[j] # c
  ELSE 0

RECURSIVE Pow10(_)
Pow10(k) == IF k = 0 THEN 1 ELSE 10 * Pow10(k - 1)

\* num * 10^sh as an f64.
Scaled(num, sh) == IF sh >= 0 THEN Fin(num * Pow10(sh), 1) ELSE Fin(num, Pow10(-sh))

\* The decimal number of the f64 grammar, cut into its integer digits ip,
\* fraction digits fp and exponent digits exds:
\* (Digit+ | Digit+ '.' Digit* | Digit* '.' Digit+) ('e' Sign? Digit+)?
ParseFields(ip, fp, hasExp, exNeg, exds) ==
  IF /\ AllDigits(ip) /\ AllDigits(fp) /\ Len(ip) + Len(fp) > 0
     /\ hasExp => (exds # <<>> /\ AllDigits(exds))
  THEN Ok(Scaled(DigitsVal(ip \o fp, Pow10(5)),
                 (IF exNeg THEN -1 ELSE 1) * DigitsVal(exds, 4) - Len(fp)))
  ELSE ParseErr

\* The mantissa cut at its '.' (at position dot, 0 for none).
ParseMantissa(mant, dot, hasExp, exNeg, exds) ==
  ParseFields(IF dot = 0 THEN mant ELSE SubSeq(mant, 1, dot - 1),
              IF dot = 0 THEN <<>> ELSE SubSeq(mant, dot + 1, Len(mant)),
              hasExp, exNeg, exds)

\* The number as mantissa and exponent text.
ParseParts(mant, ex, hasExp) ==
  ParseMantissa(mant, IndexOf(mant, "."), hasExp, ex # <<>> /\ ex[1] = "-",
                IF ex # <<>> /\ ex[1] \in {"+", "-"} THEN Tail(ex) ELSE ex)

\* The number cut at its 'e' (at position e, 0 for none).
ParseNumberAt(s, e) ==
  ParseParts(IF e = 0 THEN s ELSE SubSeq(s, 1, e - 1),
             IF e = 0 THEN <<>> ELSE SubSeq(s, e + 1, Len(s)), e # 0)

ParseNumber(s) == ParseNumberAt(s, IndexOf(s, "e"))

\* The parsed number r with its sign.
Signed(neg, r) == IF r.ok THEN Ok(IF neg THEN FNeg(r.v) ELSE r.v) ELSE ParseErr

\* str::parse::<f64>, after the sign: 'inf' | 'infinity' | 'nan' | Number.
ParseF64Body(neg, body) ==
  IF body \in {<<"i", "n", "f">>, <<"i", "n", "f", "i", "n", "i", "t", "y">>}
    THEN Ok(IF neg THEN NegInf ELSE Inf)
  ELSE IF body = <<"n", "a", "n">> THEN Ok(NaN)
  ELSE Signed(neg, ParseNumber(body))

\* str::parse::<f64> on lower-cased text: an optional sign, then the body.
ParseF64Lower(l) ==
  ParseF64Body(l[1] = "-", IF l[1] \in {"+", "-"} THEN Tail(l) ELSE l)

\* str::parse::<f64>: Sign? ('inf' | 'infinity' | 'nan' | Number), the
\* words in any letter case.
ParseF64(s) == IF s = <<>> THEN ParseErr ELSE ParseF64Lower(LowerStr(s))

\* str::parse::<String> never fails.
ParseString(s) == Ok(s)

\* The date layout the datetime crate is taken to read: YYYY-MM-DD.
IsoShape(s) ==
  /\ Len(s) = 10
  /\ s[5] = "-" /\ s[8] = "-"
  /\ \A i \in {1, 2, 3, 4, 6, 7, 9, 10} : s[i] \in Digits

IsoFormat == <<"%", "Y", "-", "%", "m", "-", "%", "d">>

DateOf(s) ==
  [y |-> DigitsVal(SubSeq(s, 1, 4), 9999), m |-> DigitsVal(SubSeq(s, 6, 7), 99),
   d |-> DigitsVal(SubSeq(s, 9, 10), 99)]

\* Datetime::from_str(line, format) of the datetime crate.
DatetimeFromStr(s, format) ==
  IF format = IsoFormat /\ IsoShape(s) THEN Ok(DateOf(s)) ELSE ParseErr

\* Datetime::try_guess(line) of the datetime crate.
DatetimeTryGuess(s) == IF IsoShape(s) THEN Ok(DateOf(s)) ELSE ParseErr

\* ------------------------------------------------------------- columns
NoMemo == [some |-> FALSE, vec |-> <<>>, tag |-> 0]
SomeMemo(vec, tag) == [some |-> TRUE, vec |-> vec, tag |-> tag]

\* struct CsvCol<T>, tagged with the ColType variant that holds it.
CsvCol(kind, name, values) ==
  [kind |-> kind, col_name |-> name, values |-> values,
   n_elements |-> Len(values), sorted_values |-> NoMemo]

\* Results and errors (miette::Error, by the kind of error it wraps).
OkR(v) == [ok |-> TRUE, v |-> v, err |-> "none"]
ErrR(kind) == [ok |-> FALSE, v |-> 0, err |-> kind]

ParseAs(kind, s) ==
  CASE kind = "Integer" -> ParseI64(s)
    [] kind = "Float" -> ParseF64(s)
    [] kind = "String" -> ParseString(s)

\* The column of the parsed cells, or the ad-hoc error message of the
\* first cell that did not parse.
ColumnOfParsed(kind, name, parsed) ==
  IF \E i \in 1..Len(parsed) : ~parsed[i].ok THEN ErrR("ParseMessage")
  ELSE OkR(CsvCol(kind, name, [i \in 1..Len(parsed) |-> parsed[i].v]))

\* CsvCol::<T>::from_str_list: every cell parsed in order, the first
\* failure ends it with an error.
from_str_list(kind, elements, name) ==
  ColumnOfParsed(kind, name, [i \in 1..Len(elements) |-> ParseAs(kind, elements[i])])

\* Option<&str> date formats and Option<ColConfig>.
NoFormat == [some |-> FALSE, fmt |-> <<>>]
SomeFormat(f) == [some |-> TRUE, fmt |-> f]
NoConfig == [some |-> FALSE, as_date |-> FALSE, date_format |-> NoFormat]
SomeConfig(as_date, date_format) ==
  [some |-> TRUE, as_date |-> as_date, date_format |-> date_format]

DatetimeParse(s, format) ==
  IF format.some THEN DatetimeFromStr(s, format.fmt) ELSE DatetimeTryGuess(s)

\* CsvCol::<Datetime>::as_datetime
as_datetime(elements, name, format) ==
  ColumnOfParsed("Datetime", name,
                 [i \in 1..Len(elements) |-> DatetimeParse(elements[i], format)])

\* ColType::as_date: Some(result) when the config forces a date, else None.
as_date(elements, name, config) ==
  IF config.as_date
  THEN [some |-> TRUE, res |-> as_datetime(elements, name, config.date_format)]
  ELSE [some |-> FALSE, res |-> ErrR("none")]

\* The try_type! cascade: the first attempt that succeeded, in order.
Cascade(int, float, string) ==
  IF int.ok THEN int
  ELSE IF float.ok THEN float
  ELSE IF string.ok THEN string
  ELSE ErrR("InvalidColType")

\* from_values trying Float before Integer.
from_values_float_first(elements, name, config) ==
  IF config.some /\ config.as_date THEN as_datetime(elements, name, config.date_format)
  ELSE Cascade(from_str_list("Float", elements, name),
               from_str_list("Integer", elements, name),
               from_str_list("String", elements, name))

\* from_values going on to the cascade when the forced date parse fails.
from_values_date_fallback(elements, name, config) ==
  IF config.some /\ config.as_date /\ as_datetime(elements, name, config.date_format).ok
  THEN as_datetime(elements, name, config.date_format)
  ELSE Cascade(from_str_list("Integer", elements, name),
               from_str_list("Float", elements, name),
               from_str_list("String", elements, name))

\* ColType::from_values, given what as_date returned (date, looked at only
\* when there is a config).
FromValuesWith(hasConfig, date, elements, name) ==
  IF hasConfig /\ date.some THEN date.res
  ELSE Cascade(from_str_list("Integer", elements, name),
               from_str_list("Float", elements, name),
               from_str_list("String", elements, name))

\* ColType::from_values
from_values(elements, name, config) ==
  FromValuesWith(config.some, as_date(elements, name, config), elements, name)

\* ------------------------------------------------------------- machine arithmetic
\* A value, or the panic that ended the computation.
Val(v) == [panic |-> FALSE, v |-> v]
Panicked == [panic |-> TRUE, v |-> 0]

\* usize a - b: an underflow panics when the build checks overflow and
\* wraps when it does not.
USub(a, b, oc) ==
  IF a >= b THEN Val(a - b)
  ELSE IF oc THEN Panicked ELSE Val(a - b + UsizeMax + 1)

\* usize a + b
UAdd(a, b, oc) ==
  IF a + b <= UsizeMax THEN Val(a + b)
  ELSE IF oc THEN Panicked ELSE Val(a + b - UsizeMax - 1)

\* i64 a + b
IAdd(a, b, oc) ==
  IF a + b > I64Max THEN (IF oc THEN Panicked ELSE Val(a + b - 2 * (I64Max + 1)))
  ELSE IF a + b < I64Min THEN (IF oc THEN Panicked ELSE Val(a + b + 2 * (I64Max + 1)))
  ELSE Val(a + b)

\* i64 a / 2, rounding toward zero.
IHalf(a) == Sign(a) * (Abs(a) \div 2)

\* `f as usize` of a finite f: saturating at both ends.
AsUsize(i) == IF i < 0 THEN 0 ELSE IF i > UsizeMax THEN UsizeMax ELSE i

\* v[i] with a zero-based usize index: out of bounds panics.
Index(v, i) == IF i < Len(v) THEN Val(v[i + 1]) ELSE Panicked

\* v[i] where computing the index i may itself have panicked.
IndexAt(v, i) == IF i.panic THEN Panicked ELSE Index(v, i.v)

\* ------------------------------------------------------------- sorted snapshot
\* The comparison handed to the sort, as "is a less than b":
\* partial_cmp(..).unwrap_or(Equal) is Less only for comparable a < b.
IsLess(kind, a, b) == IF kind = "Float" THEN FLt(a, b) ELSE a < b

\* One step of the insertion sort: x is moved left past every element it is
\* less than, stopping at the first it is not less than.
RECURSIVE InsertTail(_, _, _)
InsertTail(kind, pre, x) ==
  IF pre = <<>> \/ ~IsLess(kind, x, pre[Len(pre)]) THEN Append(pre, x)
  ELSE Append(InsertTail(kind, SubSeq(pre, 1, Len(pre) - 1), x), pre[Len(pre)])

\* slice::sort_unstable_by on a slice of at most 20 elements: the standard
\* library's insertion sort.
RECURSIVE SortUnstable(_, _)
SortUnstable(kind, v) ==
  IF Len(v) < 2 THEN v
  ELSE InsertTail(kind, SortUnstable(kind, SubSeq(v, 1, Len(v) - 1)), v[Len(v)])

\* get_sorted on a miss: the fresh copy is stored with its length and returned.
StoreSorted(col, sorted) ==
  [vec |-> sorted, col |-> [col EXCEPT !.sorted_values = SomeMemo(sorted, Len(sorted))]]

\* CsvCol::get_sorted: the snapshot it returns and the column with its memo.
get_sorted(col) ==
  IF col.sorted_values.some /\ col.sorted_values.tag = col.n_elements
  THEN [vec |-> col.sorted_values.vec, col |-> col]
  ELSE StoreSorted(col, SortUnstable(col.kind, col.values))

\* ------------------------------------------------------------- DataValue
NoDate == [y |-> 0, m |-> 0, d |-> 0]
DVFloat(x) == [tag |-> "Float", f |-> x, i |-> 0, s |-> <<>>, dt |-> NoDate]
DVInteger(x) == [tag |-> "Integer", f |-> FInt(0), i |-> x, s |-> <<>>, dt |-> NoDate]
DVString(x) == [tag |-> "String", f |-> FInt(0), i |-> 0, s |-> x, dt |-> NoDate]
DVDateTime(x) == [tag |-> "DateTime", f |-> FInt(0), i |-> 0, s |-> <<>>, dt |-> x]
DVNull == [tag |-> "Null", f |-> FInt(0), i |-> 0, s |-> <<>>, dt |-> NoDate]

\* The outcome of a call: Ok(value), Err(error kind) or a panic; with the
\* column as the call leaves it.
ROk(dv, col) == [st |-> "Ok", val |-> dv, err |-> "none", col |-> col]
RErr(kind, col) == [st |-> "Err", val |-> DVNull, err |-> kind, col |-> col]
RPanic(col) == [st |-> "Panic", val |-> DVNull, err |-> "none", col |-> col]

\* Ok(DataValue::Float(a)) / Ok(DataValue::Integer(a)) unless computing a panicked.
FloatOf(a, col) == IF a.panic THEN RPanic(col) ELSE ROk(DVFloat(a.v), col)
IntegerOf(a, col) == IF a.panic THEN RPanic(col) ELSE ROk(DVInteger(a.v), col)

\* ------------------------------------------------------------- statistics
RECURSIVE FSum(_)
FSum(v) == IF v = <<>> THEN FInt(0) ELSE FAdd(FSum(SubSeq(v, 1, Len(v) - 1)), v[Len(v)])

\* <CsvCol<f64> as Statistics>::mean
f64_mean(col) ==
  IF col.n_elements = 0 THEN RErr("EmptyColumn", col)
  ELSE ROk(DVFloat(FDivCount(FSum(col.values), Len(col.values))), col)

\* 0.5 * (a + b) of two indexed values.
HalfSum(a, b, col) ==
  IF a.panic \/ b.panic THEN RPanic(col)
  ELSE ROk(DVFloat(FMul(Fin(1, 2), FAdd(a.v, b.v))), col)

\* f64 median on the sorted snapshot c: col[len/2] for an even count,
\* 0.5 * (col[len/2] + col[len/2 - 1]) otherwise.
f64_median_sorted(n_elements, c, col, oc) ==
  IF n_elements % 2 = 0 THEN FloatOf(Index(c, Len(c) \div 2), col)
  ELSE HalfSum(Index(c, Len(c) \div 2), IndexAt(c, USub(Len(c) \div 2, 1, oc)), col)

\* The snapshot gs = get_sorted(), handed on with the column it leaves.
f64_median_with(n_elements, gs, oc) == f64_median_sorted(n_elements, gs.vec, gs.col, oc)

\* <CsvCol<f64> as Statistics>::median
f64_median(col, oc) ==
  IF col.n_elements = 0 THEN RErr("EmptyColumn", col)
  ELSE f64_median_with(col.n_elements, get_sorted(col), oc)

\* The range test with a closed upper end.
QuantileInRange_closed(q) == FLe(FInt(0), q) /\ FLe(q, FInt(1))

\* The range test (0.0..1.0).contains(&quantile).
QuantileInRange(q) == FLe(FInt(0), q) /\ FLt(q, FInt(1))

\* The interpolation with the two weights exchanged.
Lerp_swapped(lower_val, upper_val, fraction) ==
  FAdd(FMul(lower_val, fraction), FMul(upper_val, FSub(FInt(1), fraction)))

\* lower_val * (1.0 - fraction) + upper_val * fraction
Lerp(lower_val, upper_val, fraction) ==
  FAdd(FMul(lower_val, FSub(FInt(1), fraction)), FMul(upper_val, fraction))

\* The interpolated value of two indexed values.
Interpolated(lower_val, upper_val, fraction, col) ==
  IF lower_val.panic \/ upper_val.panic THEN RPanic(col)
  ELSE ROk(DVFloat(Lerp(lower_val.v, upper_val.v, fraction)), col)

\* f64 quantile from the two indexes on: col[lower_idx] when upper_idx >= n,
\* else the interpolation with fraction = index - lower_idx.
f64_quantile_at(c, col, index, lower_idx, upper_idx) ==
  IF upper_idx.panic THEN RPanic(col)
  ELSE IF upper_idx.v >= Len(c) THEN FloatOf(Index(c, lower_idx), col)
  ELSE Interpolated(Index(c, lower_idx), Index(c, upper_idx.v),
                    FSub(index, FInt(lower_idx)), col)

\* lower_idx = index.floor() as usize; upper_idx = lower_idx + 1
f64_quantile_floor(c, col, index, lower_idx, oc) ==
  f64_quantile_at(c, col, index, lower_idx, UAdd(lower_idx, 1, oc))

\* index clamped to [0.0, (n - 1) as f64]
ClampIndex(raw, top) ==
  IF FLt(raw, FInt(0)) THEN FInt(0) ELSE IF FLt(top, raw) THEN top ELSE raw

f64_quantile_index(c, col, index, oc) ==
  f64_quantile_floor(c, col, index, AsUsize(FFloor(index)), oc)

\* index = quantile * (n - 1) as f64, nm1 being n - 1 as a usize.
f64_quantile_top(c, col, q, nm1, oc) ==
  IF nm1.panic THEN RPanic(col)
  ELSE f64_quantile_index(c, col, ClampIndex(FMul(q, FInt(nm1.v)), FInt(nm1.v)), oc)

f64_quantile_sorted(c, col, q, oc) == f64_quantile_top(c, col, q, USub(Len(c), 1, oc), oc)

f64_quantile_with(gs, q, oc) == f64_quantile_sorted(gs.vec, gs.col, q, oc)

\* <CsvCol<f64> as Statistics>::quantile
f64_quantile(col, q, oc) ==
  IF ~QuantileInRange(q) THEN RErr("InvalidQuantile", col)
  ELSE f64_quantile_with(get_sorted(col), q, oc)

\* <CsvCol<i64> as Statistics>::mean
RECURSIVE ISumAsF64(_)
ISumAsF64(v) ==
  IF v = <<>> THEN FInt(0) ELSE FAdd(ISumAsF64(SubSeq(v, 1, Len(v) - 1)), FInt(v[Len(v)]))

i64_mean(col) ==
  IF col.n_elements = 0 THEN RErr("EmptyColumn", col)
  ELSE ROk(DVFloat(FDivCount(ISumAsF64(col.values), col.n_elements)), col)

\* a / 2 + b of two indexed values.
HalfPlus(a, b, oc) == IF a.panic \/ b.panic THEN Panicked ELSE IAdd(IHalf(a.v), b.v, oc)

\* i64 median on the sorted copy c: col[len/2] for an odd count,
\* col[len/2] / 2 + col[len/2 - 1] otherwise.
i64_median_sorted(col, c, oc) ==
  IF col.n_elements % 2 # 0 THEN IntegerOf(Index(c, Len(c) \div 2), col)
  ELSE IntegerOf(HalfPlus(Index(c, Len(c) \div 2),
                          IndexAt(c, USub(Len(c) \div 2, 1, oc)), oc), col)

\* <CsvCol<i64> as Statistics>::median: a private sorted copy, the memo untouched.
i64_median(col, oc) ==
  IF col.n_elements = 0 THEN RErr("EmptyColumn", col)
  ELSE i64_median_sorted(col, SortUnstable("Integer", col.values), oc)

\* The index clamp of the i64 quantile: usize::MAX becomes 0, an index past
\* the end becomes n - 1.
ClampRank(i0, n, oc) ==
  IF i0.panic THEN Panicked
  ELSE IF i0.v = UsizeMax THEN Val(0)
  ELSE IF i0.v >= n THEN USub(n, 1, oc)
  ELSE i0

\* index = (quantile * n as f64).ceil() as usize - 1, clamped, then col[index].
i64_quantile_sorted(c, col, q, oc) ==
  IntegerOf(IndexAt(c, ClampRank(USub(AsUsize(FCeil(FMul(q, FInt(Len(c))))), 1, oc),
                                 Len(c), oc)), col)

i64_quantile_with(gs, q, oc) == i64_quantile_sorted(gs.vec, gs.col, q, oc)

\* <CsvCol<i64> as Statistics>::quantile
i64_quantile(col, q, oc) ==
  IF ~QuantileInRange(q) THEN RErr("InvalidQuantile", col)
  ELSE i64_quantile_with(get_sorted(col), q, oc)

\* Statistics::stddev of both numeric columns: todo!()
f64_stddev(col) == RPanic(col)
i64_stddev(col) == RPanic(col)

\* ColType::mean / median / quantile / stddev: the numeric variants
\* dispatch, the others fail with InvalidType.
ColType_mean(col) ==
  CASE col.kind = "Float" -> f64_mean(col)
    [] col.kind = "Integer" -> i64_mean(col)
    [] OTHER -> RErr("InvalidType", col)

ColType_median(col, oc) ==
  CASE col.kind = "Float" -> f64_median(col, oc)
    [] col.kind = "Integer" -> i64_median(col, oc)
    [] OTHER -> RErr("InvalidType", col)

ColType_quantile(col, q, oc) ==
  CASE col.kind = "Float" -> f64_quantile(col, q, oc)
    [] col.kind = "Integer" -> i64_quantile(col, q, oc)
    [] OTHER -> RErr("InvalidType", col)

ColType_stddev(col) ==
  CASE col.kind = "Float" -> f64_stddev(col)
    [] col.kind = "Integer" -> i64_stddev(col)
    [] OTHER -> RErr("InvalidType", col)

\* ------------------------------------------------------------- inputs
\* Sequences over S of length at most n.
SeqsUpTo(S, n) == UNION {[1..k -> S] : k \in 0..n}

NameA == <<"a">>
NameB == <<"b">>
Names == {NameA, NameB}

IsoDate == <<"2", "0", "2", "4", "-", "0", "1", "-", "0", "2">>

\* Raw cells: integers up to the largest i64 and one past it, floats with
\* the non-finite words, text and a date.
IntCells == {Dec(1), DecInt(-3), Dec(I64Max)}
FloatCells == {<<"2", ".", "5">>, Dec(I64Max + 1), <<"N", "a", "N">>}
TextCells == {<<"x">>, IsoDate}
SmallCells == {Dec(1), <<"x">>}

InfCells == {<<"2", ".", "5">>, <<"i", "n", "f">>}

NumericColumns ==
  SeqsUpTo(IntCells, MaxRows) \cup SeqsUpTo(FloatCells, MaxRows)
    \cup SeqsUpTo(InfCells, MaxRows)
TextColumns == SeqsUpTo(TextCells, MaxRows)
\* Cells at the edges of the number grammars, for from_values alone.
EdgeCells ==
  {<<>>, <<"-">>, <<"+", "1">>, <<"1", ".">>, <<".", "5">>, <<".">>, <<"1", "e", "1">>,
   <<"e", "1">>, <<"-", "i", "n", "f">>, <<"I", "n", "f", "i", "n", "i", "t", "y">>,
   DecInt(I64Min), DecInt(I64Min - 1)}
RawColumns == NumericColumns \cup TextColumns \cup SeqsUpTo(EdgeCells \cup SmallCells, MaxDfRows)

\* Option<HashMap<String, Option<&str>>>: the columns to read as dates.
NoDates == [some |-> FALSE, map |-> <<>>]
DatesMap(m) == [some |-> TRUE, map |-> m]
DateMaps ==
  {NoDates, DatesMap([n \in {NameA} |-> NoFormat]),
   DatesMap([n \in {NameA} |-> SomeFormat(IsoFormat)])}

\* The text a file holds, already split: the header and the cells of each
\* column, every column of the same length.
Table(header, columns, dates) ==
  [header |-> header, columns |-> columns, parser_as_date |-> dates]

Tables ==
  {Table(<<NameA>>, <<c>>, NoDates) : c \in NumericColumns}
    \cup {Table(<<NameA>>, <<c>>, d) : c \in TextColumns, d \in DateMaps}
    \cup {Table(h, <<t[1], t[2]>>, NoDates) :
            h \in {<<NameA, NameB>>, <<NameA, NameA>>},
            t \in UNION {[1..2 -> [1..k -> SmallCells]] : k \in 0..MaxDfRows}}

Configs ==
  {NoConfig, SomeConfig(FALSE, NoFormat), SomeConfig(FALSE, SomeFormat(IsoFormat)),
   SomeConfig(TRUE, NoFormat), SomeConfig(TRUE, SomeFormat(IsoFormat))}

\* Quantile levels: the multiples of 1/QDen from just below 0 up to 1, and NaN.
Quantiles == {Fin(k, QDen) : k \in (-1)..QDen} \cup {NaN}

\* ------------------------------------------------------------- state
VARIABLES
  overflow_checks,  \* the build: does integer overflow panic (debug) or wrap
  pc,               \* "new", "ready", "failed" (Csv::new returned Err),
                    \* "inferred" (from_values was called), "aborted" (a panic)
  cols,             \* Csv.cols
  n_cols,           \* Csv.n_cols
  n_rows,           \* Csv.n_rows
  header,           \* Csv.header
  cache,            \* Csv.cache: column name -> Statistics
  ret               \* the last call: its arguments and what it returned

vars == <<overflow_checks, pc, cols, n_cols, n_rows, header, cache, ret>>

NoneDV == [some |-> FALSE, v |-> DVNull]
SomeDV(v) == [some |-> TRUE, v |-> v]

\* struct Statistics of csv_parser.rs, Default.
StatisticsDefault == [mean |-> NoneDV, median |-> NoneDV, std_dev |-> NoneDV]

\* HashMap::get on the cache
CacheGet(c, name) ==
  IF name \in DOMAIN c THEN [some |-> TRUE, v |-> c[name]]
  ELSE [some |-> FALSE, v |-> StatisticsDefault]

\* The cache write filling the mean and the median slot alike.
CachePut_both(c, name, metric, v) ==
  [n \in DOMAIN c \cup {name} |->
     IF n = name THEN [mean |-> SomeDV(v), median |-> SomeDV(v), std_dev |-> NoneDV]
     ELSE c[n]]

\* cache.entry(name).or_default().<metric> = Some(v)
CachePut(c, name, metric, v) ==
  [n \in DOMAIN c \cup {name} |->
     [(IF n \in DOMAIN c THEN c[n] ELSE StatisticsDefault)
        EXCEPT ![metric] = IF n = name THEN SomeDV(v) ELSE @]]

EmptyCache == [n \in {} |-> StatisticsDefault]

NoRet ==
  [op |-> "none", name |-> <<>>, q |-> NaN, col |-> 0, elements |-> <<>>,
   config |-> NoConfig, st |-> "Ok", val |-> DVNull, err |-> "none",
   vec |-> <<>>, kind |-> "none", computed |-> FALSE, index |-> 0, out |-> <<>>]

Init ==
  /\ overflow_checks \in BOOLEAN
  /\ pc = "new"
  /\ cols = <<>>
  /\ n_cols = 0
  /\ n_rows = 0
  /\ header = <<>>
  /\ cache = EmptyCache
  /\ ret = NoRet

\* The ColConfig Csv::new builds for a column name.
ConfigFor(dates, name) ==
  IF dates.some /\ name \in DOMAIN dates.map
  THEN SomeConfig(TRUE, dates.map[name])
  ELSE NoConfig

\* The index of the first column that could not be built, or 0.
FirstBad(built) ==
  IF \A i \in 1..Len(built) : built[i].ok THEN 0
  ELSE CHOOSE i \in 1..Len(built) : ~built[i].ok /\ \A j \in 1..(i - 1) : built[j].ok

\* Csv::new failing on column bad with that column's error.
CsvNewFailed(t, built, bad) ==
  /\ pc' = "failed"
  /\ ret' = [NoRet EXCEPT !.op = "new", !.st = "Err", !.err = built[bad].err,
                          !.elements = t.columns[bad],
                          !.config = ConfigFor(t.parser_as_date, t.header[bad])]
  /\ UNCHANGED <<cols, n_cols, n_rows, header, cache>>

\* Csv::new returning the frame of the built columns.
CsvNewBuilt(t, built) ==
  /\ pc' = "ready"
  /\ cols' = [i \in 1..Len(built) |-> built[i].v]
  /\ n_cols' = Len(t.header)
  /\ n_rows' = Len(t.columns[1])
  /\ header' = t.header
  /\ cache' = EmptyCache
  /\ ret' = [NoRet EXCEPT !.op = "new"]

CsvNewFrom(t, built, bad) ==
  IF bad # 0 THEN CsvNewFailed(t, built, bad) ELSE CsvNewBuilt(t, built)

CsvNewOf(t, built) == CsvNewFrom(t, built, FirstBad(built))

\* Csv::new on the split text of a file: one column per header name, each
\* inferred by from_values; the first column that cannot be built fails the
\* whole construction with its error.
CsvNew ==
  /\ pc = "new"
  /\ \E t \in Tables :
       CsvNewOf(t, [i \in 1..Len(t.columns) |->
                      from_values(t.columns[i], t.header[i],
                                  ConfigFor(t.parser_as_date, t.header[i]))])
  /\ UNCHANGED overflow_checks

\* What a direct call of from_values leaves behind.
FromValuesRet(e, c, r) ==
  [NoRet EXCEPT !.op = "from_values", !.name = NameA, !.elements = e,
                !.config = c, !.st = IF r.ok THEN "Ok" ELSE "Err",
                !.err = r.err,
                !.kind = IF r.ok THEN r.v.kind ELSE "none",
                !.vec = IF r.ok THEN r.v.values ELSE <<>>]

\* A direct call of ColType::from_values(elements, name, config).
FromValues ==
  /\ pc = "new"
  /\ \E e \in RawColumns, c \in Configs : ret' = FromValuesRet(e, c, from_values(e, NameA, c))
  /\ pc' = "inferred"
  /\ UNCHANGED <<overflow_checks, cols, n_cols, n_rows, header, cache>>

\* Csv::get_col: the index of the first column of that name, or 0.
get_col(cs, name) ==
  IF \A i \in 1..Len(cs) : cs[i].col_name # name THEN 0
  ELSE CHOOSE i \in 1..Len(cs) :
         cs[i].col_name = name /\ \A j \in 1..(i - 1) : cs[j].col_name # name

\* What a call leaves behind: the outcome r of a column operation on column
\* i, or a plain error when no column was reached.
Returned(op, name, q, i, r, computed) ==
  [NoRet EXCEPT !.op = op, !.name = name, !.q = q, !.col = i, !.st = r.st,
                !.val = r.val, !.err = r.err, !.computed = computed]

NoColumn == [kind |-> "none", col_name |-> <<>>, values |-> <<>>, n_elements |-> 0,
             sorted_values |-> NoMemo]

After(r) == IF r.st = "Panic" THEN "aborted" ELSE "ready"

\* A statistics method returning the outcome r of column i, the fresh value
\* written to the cache under the column's name.
CsvStatComputed(metric, name, i, r) ==
  /\ ret' = Returned(metric, name, NaN, i, r, TRUE)
  /\ cols' = [cols EXCEPT ![i] = r.col]
  /\ pc' = After(r)
  /\ cache' = IF r.st = "Ok" THEN CachePut(cache, cols[i].col_name, metric, r.val)
              ELSE cache

\* The cache lookup hit, then get_col(name)?, then the column's computation.
CsvStatWith(metric, name, hit, i) ==
  IF hit.some /\ hit.v[metric].some
  THEN /\ ret' = Returned(metric, name, NaN, 0, ROk(hit.v[metric].v, NoColumn), FALSE)
       /\ UNCHANGED <<pc, cols, cache>>
  ELSE IF i = 0
  THEN /\ ret' = Returned(metric, name, NaN, 0, RErr("MissingCol", NoColumn), FALSE)
       /\ UNCHANGED <<pc, cols, cache>>
  ELSE CsvStatComputed(metric, name, i,
                       IF metric = "mean" THEN ColType_mean(cols[i])
                       ELSE ColType_median(cols[i], overflow_checks))

\* The methods the statistics! macro generates: Csv::mean and Csv::median.
CsvStat(metric, name) ==
  CsvStatWith(metric, name, CacheGet(cache, name), get_col(cols, name))

Mean ==
  /\ pc = "ready"
  /\ \E name \in Names : CsvStat("mean", name)
  /\ UNCHANGED <<overflow_checks, n_cols, n_rows, header>>

Median ==
  /\ pc = "ready"
  /\ \E name \in Names : CsvStat("median", name)
  /\ UNCHANGED <<overflow_checks, n_cols, n_rows, header>>

\* A column operation past the cache returning the outcome r of column i.
ColumnReturned(op, name, q, i, r) ==
  /\ ret' = Returned(op, name, q, i, r, TRUE)
  /\ cols' = [cols EXCEPT ![i] = r.col]
  /\ pc' = After(r)

\* get_col(name)? failing.
ColumnMissing(op, name, q) ==
  /\ ret' = Returned(op, name, q, 0, RErr("MissingCol", NoColumn), FALSE)
  /\ UNCHANGED <<pc, cols>>

QuantileAt(name, q, i) ==
  IF i = 0 THEN ColumnMissing("quantile", name, q)
  ELSE ColumnReturned("quantile", name, q, i,
                      ColType_quantile(cols[i], q, overflow_checks))

\* Csv::quantile: get_col(name)?.quantile(q), never cached.
Quantile ==
  /\ pc = "ready"
  /\ \E name \in Names, q \in Quantiles : QuantileAt(name, q, get_col(cols, name))
  /\ UNCHANGED <<overflow_checks, n_cols, n_rows, header, cache>>

ColStatAt(op, name, i) ==
  IF i = 0 THEN ColumnMissing(op, name, NaN)
  ELSE ColumnReturned(op, name, NaN, i,
                      IF op = "col_mean" THEN ColType_mean(cols[i])
                      ELSE ColType_median(cols[i], overflow_checks))

\* ColViewer::mean and ColViewer::median on the column get_col finds: the
\* column's own computation, past the cache.
ColStat(op, name) == ColStatAt(op, name, get_col(cols, name))

ColMean ==
  /\ pc = "ready"
  /\ \E name \in Names : ColStat("col_mean", name)
  /\ UNCHANGED <<overflow_checks, n_cols, n_rows, header, cache>>

ColMedian ==
  /\ pc = "ready"
  /\ \E name \in Names : ColStat("col_median", name)
  /\ UNCHANGED <<overflow_checks, n_cols, n_rows, header, cache>>

StddevReturned(i, r) ==
  /\ ret' = Returned("stddev", cols[i].col_name, NaN, i, r, TRUE)
  /\ pc' = After(r)

\* ColType::stddev on a column of the frame.
Stddev ==
  /\ pc = "ready"
  /\ \E i \in 1..Len(cols) : StddevReturned(i, ColType_stddev(cols[i]))
  /\ UNCHANGED <<overflow_checks, cols, n_cols, n_rows, header, cache>>

GetSortedReturned(i, gs) ==
  /\ ret' = [NoRet EXCEPT !.op = "get_sorted", !.name = cols[i].col_name,
                          !.col = i, !.vec = gs.vec, !.computed = TRUE]
  /\ cols' = [cols EXCEPT ![i] = gs.col]

\* CsvCol::get_sorted on a numeric column of the frame.
GetSorted ==
  /\ pc = "ready"
  /\ \E i \in 1..Len(cols) :
       /\ cols[i].kind \in {"Float", "Integer"}
       /\ GetSortedReturned(i, get_sorted(cols[i]))
  /\ UNCHANGED <<overflow_checks, pc, n_cols, n_rows, header, cache>>

\* The DataValue variant that wraps a value of a column of that kind.
DataValueOf(kind, v) ==
  CASE kind = "Float" -> DVFloat(v)
    [] kind = "Integer" -> DVInteger(v)
    [] kind = "String" -> DVString(v)
    [] kind = "Datetime" -> DVDateTime(v)

\* data_as_value counting the rows from one.
data_as_value_one_based(col, index) ==
  IF 1 <= index /\ index <= Len(col.values)
  THEN ROk(DataValueOf(col.kind, col.values[index]), col)
  ELSE RErr("OutOfRange", col)

\* ColType::data_as_value: values.get(index), wrapped, or OutOfRange.
data_as_value(col, index) ==
  IF index < Len(col.values)
  THEN ROk(DataValueOf(col.kind, col.values[index + 1]), col)
  ELSE RErr("OutOfRange", col)

GetAt(name, index, i) ==
  /\ ret' = [Returned("get", name, NaN, i,
                      IF i = 0 THEN RErr("MissingCol", NoColumn)
                      ELSE data_as_value(cols[i], index), i # 0)
               EXCEPT !.index = index]
  /\ UNCHANGED <<pc, cols>>

\* Csv::get_col(name)?.get(index)
Get ==
  /\ pc = "ready"
  /\ \E name \in Names, index \in 0..MaxIndex : GetAt(name, index, get_col(cols, name))
  /\ UNCHANGED <<overflow_checks, n_cols, n_rows, header, cache>>

\* ------------------------------------------------------------- rendering
\* The digits after the point of n/d, for 0 <= n < d.
RECURSIVE FracDigits(_, _)
FracDigits(n, d) ==
  IF n = 0 THEN <<>>
  ELSE <<DigitChar((10 * n) \div d)>> \o FracDigits((10 * n) % d, d)

\* The decimal text of the magnitude m/d.
DecimalText(m, d) ==
  IF m % d = 0 THEN Dec(m \div d) ELSE Dec(m \div d) \o <<".">> \o FracDigits(m % d, d)

\* Display of an f64: NaN, inf, -inf, or the shortest decimal text.
DisplayF64(x) ==
  IF x.k = "nan" THEN <<"N", "a", "N">>
  ELSE IF x.k = "inf"
    THEN (IF x.n < 0 THEN <<"-", "i", "n", "f">> ELSE <<"i", "n", "f">>)
  ELSE (IF x.n < 0 THEN <<"-">> ELSE <<>>) \o DecimalText(Abs(x.n), x.d)

\* n as decimal text of at least w digits.
ZeroPadded(text, w) == [i \in 1..(w - Len(text)) |-> "0"] \o text

\* Display of a Datetime of the datetime crate, taken to write YYYY-MM-DD.
DisplayDatetime(dt) ==
  ZeroPadded(Dec(dt.y), 4) \o <<"-">> \o ZeroPadded(Dec(dt.m), 2) \o <<"-">>
    \o ZeroPadded(Dec(dt.d), 2)

\* T::to_string of a value of a column of that kind.
DisplayOf(kind, v) ==
  CASE kind = "Float" -> DisplayF64(v)
    [] kind = "Integer" -> DecInt(v)
    [] kind = "String" -> v
    [] kind = "Datetime" -> DisplayDatetime(v)

RECURSIVE MaxLen(_)
MaxLen(strings) ==
  IF strings = <<>> THEN 0 ELSE Max(Len(Head(strings)), MaxLen(Tail(strings)))

\* Ok((strings, max_width))
RangeOk(strings) == [ok |-> TRUE, strings |-> strings, max_width |-> MaxLen(strings)]
RangeErr == [ok |-> FALSE, strings |-> <<>>, max_width |-> 0]

\* CsvCol::get_range_as_strings (through ColType::print_range_lines)
get_range_as_strings(col, beg, end) ==
  IF end > col.n_elements \/ beg > end THEN RangeErr
  ELSE RangeOk([i \in 1..(end - beg) |-> DisplayOf(col.kind, col.values[beg + i])])

\* format!("{:<width$}", s): s, filled with spaces on the right up to width.
PadLeftAligned(text, width) == text \o [i \in 1..(width - Len(text)) |-> " "]

\* The cells of one line from cell i on, ", " after each cell but the one
\* at index n_cols - 1.
RECURSIVE JoinFrom(_, _, _)
JoinFrom(cells, i, ncols) ==
  IF i > Len(cells) THEN <<>>
  ELSE cells[i] \o (IF i - 1 < ncols - 1 THEN <<",", " ">> ELSE <<>>)
         \o JoinFrom(cells, i + 1, ncols)

\* What the rendering returns: the lines of the text, an error, or a panic.
POk(lines) == [st |-> "Ok", err |-> "none", out |-> lines]
PErr(kind) == [st |-> "Err", err |-> kind, out |-> <<>>]
PPanic == [st |-> "Panic", err |-> "none", out |-> <<>>]

\* The body loop of print_n_lines over the first taken elements of cols, the
\* vector that holds one vector of cell texts per column: each element is
\* indexed by col_idx in 0..n_cols.
BodyLines(ranges, widths, ncols, taken) ==
  [r \in 1..taken |->
     JoinFrom([c \in 1..ncols |-> PadLeftAligned(ranges[r].strings[c], widths[c])],
              1, ncols)]

\* print_n_lines from the header line on; take is beg - end.
PrintLines(hdr, ncols, ranges, widths, take) ==
  IF Len(hdr) > Len(widths) \/ take.panic THEN PPanic
  ELSE IF \E r \in 1..Min(take.v, Len(ranges)) :
            ncols > Len(ranges[r].strings) \/ ncols > Len(widths)
    THEN PPanic
  ELSE POk(<<JoinFrom([i \in 1..Len(hdr) |-> PadLeftAligned(hdr[i], widths[i])],
                      1, ncols)>>
             \o BodyLines(ranges, widths, ncols, Min(take.v, Len(ranges))))

\* print_n_lines once every column gave its range: max_widths[i] is raised
\* to the width of header[i].
PrintRanges(hdr, ncols, ranges, take) ==
  IF \E i \in 1..Len(ranges) : ~ranges[i].ok THEN PErr("RangeMessage")
  ELSE PrintLines(hdr, ncols, ranges,
                  [i \in 1..Len(ranges) |->
                     IF i <= Len(hdr) THEN Max(ranges[i].max_width, Len(hdr[i]))
                     ELSE ranges[i].max_width],
                  take)

\* Csv::print_n_lines
print_n_lines(cs, hdr, nrows, ncols, beg, end, oc) ==
  IF beg > nrows THEN PErr("RowsMessage")
  ELSE PrintRanges(hdr, ncols,
                   [i \in 1..Len(cs) |-> get_range_as_strings(cs[i], beg, end)],
                   USub(beg, end, oc))

\* Csv::head_n
head_n(cs, hdr, nrows, ncols, n_lines, oc) ==
  IF nrows < n_lines THEN PErr("OutOfLines")
  ELSE print_n_lines(cs, hdr, nrows, ncols, 0, n_lines, oc)

HeadNReturned(n_lines, r) ==
  /\ ret' = [NoRet EXCEPT !.op = "head_n", !.index = n_lines, !.st = r.st,
                          !.err = r.err, !.out = r.out]
  /\ pc' = After(r)

\* A call of Csv::head_n(n_lines).
HeadN ==
  /\ pc = "ready"
  /\ \E n_lines \in 0..MaxIndex :
       HeadNReturned(n_lines, head_n(cols, header, n_rows, n_cols, n_lines,
                                     overflow_checks))
  /\ UNCHANGED <<overflow_checks, cols, n_cols, n_rows, header, cache>>

Next ==
  \/ CsvNew
  \/ FromValues
  \/ Mean
  \/ Median
  \/ Quantile
  \/ ColMean
  \/ ColMedian
  \/ Stddev
  \/ GetSorted
  \/ Get
  \/ HeadN

Spec == Init /\ [][Next]_vars

TypeOK ==
  /\ pc \in {"new", "ready", "failed", "inferred", "aborted"}
  /\ ret.st \in {"Ok", "Err", "Panic"}

\* ------------------------------------------------------------- properties
Forced(c) == c.some /\ c.as_date
AllParse(kind, e) == \A i \in 1..Len(e) : ParseAs(kind, e[i]).ok
AllDates(e, format) == \A i \in 1..Len(e) : DatetimeParse(e[i], format).ok

\* The column a call reached.
RetCol == cols[ret.col]
OnNumeric == ret.col # 0 /\ RetCol.kind \in {"Float", "Integer"}

C3EmptyColumn ==
  (/\ ret.op \in {"mean", "median", "col_mean", "col_median", "quantile", "stddev"}
   /\ ret.computed /\ OnNumeric /\ RetCol.n_elements = 0
   /\ ret.op = "quantile" => (FLe(FInt(0), ret.q) /\ FLt(ret.q, FInt(1))))
    => (ret.st = "Err" /\ ret.err = "EmptyColumn")

\* C4 as stated: quantile fails with InvalidQuantile exactly when q < 0.0
\* or q >= 1.0.
C4Original ==
  (ret.op = "quantile" /\ OnNumeric) =>
    ((ret.st = "Err" /\ ret.err = "InvalidQuantile")
       <=> (FLt(ret.q, FInt(0)) \/ FLe(FInt(1), ret.q)))

\* C4 amended: on a numeric column quantile fails with InvalidQuantile
\* exactly when q < 0.0, q >= 1.0 or q is NaN (q = 1.0 is rejected, q = 0.0
\* is not), and a rejected call leaves the column and its memo as they were.
C4Rejected ==
  (ret.op = "quantile" /\ OnNumeric) =>
    ((ret.st = "Err" /\ ret.err = "InvalidQuantile")
       <=> (FLt(ret.q, FInt(0)) \/ FLe(FInt(1), ret.q) \/ IsNaN(ret.q)))

C4InvalidQuantile ==
  /\ []C4Rejected
  /\ [][(ret'.op = "quantile" /\ ret'.err = "InvalidQuantile") => cols' = cols]_vars

\* q = 1.0 is rejected on a column that has no memo yet.
C4Witness ==
  /\ ret.op = "quantile" /\ OnNumeric /\ ret.q = FInt(1)
  /\ ret.err = "InvalidQuantile" /\ ~RetCol.sorted_values.some
  /\ RetCol.n_elements > 0

\* The k-th smallest (k from 1) of a sequence of integers, by counting.
Kth(v, k) ==
  CHOOSE x \in {v[i] : i \in 1..Len(v)} :
    /\ Cardinality({i \in 1..Len(v) : v[i] < x}) < k
    /\ k <= Cardinality({i \in 1..Len(v) : v[i] <= x})

ValidQ(q) == FLe(FInt(0), q) /\ FLt(q, FInt(1))

QuantileOn(kind) ==
  /\ ret.op = "quantile" /\ ret.computed /\ ret.col # 0
  /\ RetCol.kind = kind /\ RetCol.n_elements > 0 /\ ValidQ(ret.q)

MedianOn(kind) ==
  /\ ret.op \in {"median", "col_median"} /\ ret.computed /\ ret.col # 0
  /\ RetCol.kind = kind /\ RetCol.n_elements > 0

\* C5 as stated: on a non-empty Integer column and q in [0,1), quantile
\* returns Integer(sorted[idx]), idx = ceil(q*n) - 1 clamped to [0, n-1]
\* (index 0 when ceil(q*n) is 0), an element of the column, without aborting.
C5NearestRank ==
  QuantileOn("Integer") =>
    LET n   == RetCol.n_elements
        idx == Max(0, Min(n - 1, FCeil(FMul(ret.q, FInt(n))) - 1))
    IN  /\ ret.st = "Ok"
        /\ ret.val = DVInteger(Kth(RetCol.values, idx + 1))
        /\ \E i \in 1..n : RetCol.values[i] = ret.val.i

\* The value C6 gives for quantile(q) of a Float column whose sorted
\* snapshot is s.
C6Value(s, q) ==
  LET n    == Len(s)
      raw  == FMul(q, FInt(n - 1))
      pos  == IF FLt(raw, FInt(0)) THEN FInt(0)
              ELSE IF FLt(FInt(n - 1), raw) THEN FInt(n - 1) ELSE raw
      lo   == FFloor(pos)
      hi   == lo + 1
      frac == FSub(pos, FInt(lo))
  IN  IF hi >= n THEN s[lo + 1]
      ELSE FAdd(FMul(s[lo + 1], FSub(FInt(1), frac)), FMul(s[hi + 1], frac))

C6Lo(s, q) == s[FFloor(FMul(q, FInt(Len(s) - 1))) + 1]
C6Hi(s, q) == s[Min(Len(s), FFloor(FMul(q, FInt(Len(s) - 1))) + 2)]

\* C6 as stated, read in its favour (only columns that hold no NaN): the
\* value is the interpolation between sorted[lo] and sorted[hi], hence
\* sorted[lo] <= v <= sorted[hi].
C6Original ==
  (QuantileOn("Float") /\ \A i \in 1..Len(RetCol.values) : ~IsNaN(RetCol.values[i])) =>
    LET s == RetCol.sorted_values.vec
    IN  /\ ret.st = "Ok"
        /\ ret.val = DVFloat(C6Value(s, ret.q))
        /\ FLe(C6Lo(s, ret.q), ret.val.f)
        /\ FLe(ret.val.f, C6Hi(s, ret.q))

\* C6 amended: on a non-empty Float column and q in [0,1), quantile returns
\* Float(v), v = sorted[lo] when hi >= n and otherwise
\* sorted[lo]*(1-frac) + sorted[hi]*frac evaluated in f64 arithmetic; a
\* one-element column returns its only value.  v need not lie between
\* sorted[lo] and sorted[hi]: with an infinite neighbour of weight 0 it is NaN.
C6Interpolation ==
  QuantileOn("Float") =>
    LET s == RetCol.sorted_values.vec
    IN  /\ ret.st = "Ok"
        /\ RetCol.sorted_values.some
        /\ ret.val = DVFloat(C6Value(s, ret.q))
        /\ Len(s) = 1 => ret.val = DVFloat(RetCol.values[1])

\* An interpolation strictly between two distinct finite neighbours.
C6Witness ==
  /\ QuantileOn("Float") /\ ret.st = "Ok"
  /\ LET s == RetCol.sorted_values.vec
     IN  /\ Len(s) >= 2
         /\ IsFinite(C6Lo(s, ret.q)) /\ IsFinite(C6Hi(s, ret.q))
         /\ FLt(C6Lo(s, ret.q), ret.val.f) /\ FLt(ret.val.f, C6Hi(s, ret.q))

\* C7 as stated: on every non-empty Float column (n = 1 included) median
\* returns a Float without aborting: sorted[n/2] when n is even, the average
\* of sorted[n/2 - 1] and sorted[n/2] when n is odd.
C7FloatMedian ==
  MedianOn("Float") =>
    LET s == RetCol.sorted_values.vec
        n == RetCol.n_elements
    IN  /\ ret.st = "Ok"
        /\ ret.val = IF n % 2 = 0 THEN DVFloat(s[n \div 2 + 1])
                     ELSE DVFloat(FMul(Fin(1, 2), FAdd(s[n \div 2 + 1], s[n \div 2])))

\* C8 as stated, the sum taken as an i64 (modulo 2^I64Bits): on a non-empty
\* Integer column median returns Integer(sorted[n/2]) when n is odd and
\* Integer(sorted[n/2] / 2 + sorted[n/2 - 1]) when n is even, the division
\* truncating; the sorted memo of the column is not touched.
C8IntegerMedian ==
  MedianOn("Integer") =>
    LET v   == RetCol.values
        n   == RetCol.n_elements
        up  == Kth(v, n \div 2 + 1)
        exp == IF n % 2 # 0 THEN up
               ELSE Sign(up) * (Abs(up) \div 2) + Kth(v, n \div 2)
    IN  /\ ret.st = "Ok"
        /\ ret.val.tag = "Integer"
        /\ (ret.val.i - exp) % Pow2(I64Bits) = 0

\* C9: a mean (median) call whose slot is filled returns the cached value
\* without computing and changes nothing; one whose slot is empty and that
\* succeeds computes and fills that slot of that name only; a failing call,
\* a quantile call and every other call leave the cache as it was; a filled
\* slot never changes.
SlotOf(c, name, metric) == IF name \in DOMAIN c THEN c[name][metric] ELSE NoneDV

C9Step ==
  LET m == ret'.op
      n == ret'.name
  IN  /\ \A x \in DOMAIN cache, k \in {"mean", "median", "std_dev"} :
           cache[x][k].some => (x \in DOMAIN cache' /\ cache'[x][k] = cache[x][k])
      /\ IF m \in {"mean", "median"} /\ SlotOf(cache, n, m).some
         THEN /\ ret'.st = "Ok" /\ ret'.val = SlotOf(cache, n, m).v
              /\ ~ret'.computed
              /\ cache' = cache /\ cols' = cols
         ELSE IF m \in {"mean", "median"} /\ ret'.st = "Ok"
         THEN /\ ret'.computed
              /\ DOMAIN cache' = DOMAIN cache \cup {n}
              /\ cache'[n][m] = SomeDV(ret'.val)
              /\ \A x \in DOMAIN cache', k \in {"mean", "median", "std_dev"} :
                   (x # n \/ k # m) => cache'[x][k] = SlotOf(cache, x, k)
         ELSE cache' = cache

C9Cache == [][C9Step]_vars

\* A mean served from the cache while the median slot of the name is empty.
C9Witness ==
  /\ ret.op = "mean" /\ ret.st = "Ok" /\ ~ret.computed
  /\ ~SlotOf(cache, ret.name, "median").some

\* No later element is less than an earlier one.
Ascending(kind, s) ==
  \A i \in 1..Len(s), j \in 1..Len(s) : i < j => ~IsLess(kind, s[j], s[i])

\* s holds the elements of v, each as often.
Permutation(s, v) ==
  /\ Len(s) = Len(v)
  /\ \A i \in 1..Len(v) :
       Cardinality({j \in 1..Len(s) : s[j] = v[i]})
         = Cardinality({j \in 1..Len(v) : v[j] = v[i]})

\* C10 as stated: what get_sorted returns, and the memo whenever present, is
\* an ascending permutation of the column's values, tagged with its count.
C10SortedSnapshot ==
  /\ \A i \in 1..Len(cols) :
       (cols[i].kind \in {"Float", "Integer"} /\ cols[i].sorted_values.some) =>
         /\ cols[i].sorted_values.tag = cols[i].n_elements
         /\ Permutation(cols[i].sorted_values.vec, cols[i].values)
         /\ Ascending(cols[i].kind, cols[i].sorted_values.vec)
  /\ ret.op = "get_sorted" =>
       /\ ret.vec = RetCol.sorted_values.vec
       /\ Ascending(RetCol.kind, ret.vec)

\* The columns of the frame that carry a name, in order.
Named(name) == {i \in 1..Len(cols) : cols[i].col_name = name}
FirstNamed(name) == CHOOSE i \in Named(name) : \A j \in Named(name) : i <= j

\* The payload of a DataValue of the variant that wraps a column kind.
Wraps(dv, kind, v) ==
  CASE kind = "Float" -> dv.tag = "Float" /\ dv.f = v
    [] kind = "Integer" -> dv.tag = "Integer" /\ dv.i = v
    [] kind = "String" -> dv.tag = "String" /\ dv.s = v
    [] kind = "Datetime" -> dv.tag = "DateTime" /\ dv.dt = v

\* C11: get_col(name) then get(index) fails with MissingCol when no column
\* has the name, fails with OutOfRange when index >= n_rows whatever the
\* variant, and otherwise returns the value at that index of the first
\* column of that name, wrapped in the DataValue of the column's variant.
C11ValueAt ==
  ret.op = "get" =>
    IF Named(ret.name) = {} THEN ret.st = "Err" /\ ret.err = "MissingCol"
    ELSE IF ret.index >= n_rows THEN ret.st = "Err" /\ ret.err = "OutOfRange"
    ELSE /\ ret.st = "Ok"
         /\ Wraps(ret.val, cols[FirstNamed(ret.name)].kind,
                  cols[FirstNamed(ret.name)].values[ret.index + 1])

\* A value read from the first of two columns of one name and of
\* different variants.
C11Witness ==
  /\ ret.op = "get" /\ ret.st = "Ok"
  /\ Len(cols) = 2 /\ cols[1].col_name = cols[2].col_name
  /\ cols[1].kind = "String" /\ cols[2].kind = "Integer"

\* A Datetime column read at index = n_rows.
C11WitnessEdge ==
  /\ ret.op = "get" /\ ret.err = "OutOfRange" /\ ret.index = n_rows /\ n_rows > 0
  /\ cols[FirstNamed(ret.name)].kind = "Datetime"

\* The text of the cell of column c in row r (counted from one).
CellText(c, r) == DisplayOf(cols[c].kind, cols[c].values[r])

\* The width of column c when the first n rows are shown.
ShownWidth(c, n) ==
  CHOOSE w \in {Len(header[c])} \cup {Len(CellText(c, r)) : r \in 1..n} :
    /\ w >= Len(header[c])
    /\ \A r \in 1..n : w >= Len(CellText(c, r))

RECURSIVE Joined(_)
Joined(cells) ==
  IF Len(cells) = 1 THEN cells[1] ELSE cells[1] \o <<",", " ">> \o Joined(Tail(cells))

\* The header line, then the first n rows, one padded cell per column.
HeadText(n) ==
  <<Joined([c \in 1..Len(cols) |-> PadLeftAligned(header[c], ShownWidth(c, n))])>>
    \o [r \in 1..n |->
          Joined([c \in 1..Len(cols) |-> PadLeftAligned(CellText(c, r), ShownWidth(c, n))])]

\* C12: head_n(n) fails with OutOfLines when n > n_rows, and for every
\* n <= n_rows it returns Ok without a panic, having rendered the header line
\* followed by exactly the first n rows with one cell per column.
C12HeadN ==
  ret.op = "head_n" =>
    IF ret.index > n_rows THEN ret.st = "Err" /\ ret.err = "OutOfLines"
    ELSE ret.st = "Ok" /\ Len(ret.out) = ret.index + 1 /\ ret.out = HeadText(ret.index)

====
